---- MODULE Spec2Model ----
(***************************************************************************)
(* A model of sanic's Router (src/sanic/router.py): route registration     *)
(* (Router.add), request resolution (Router.get) and the lru_cache that    *)
(* wraps Router.get.                                                        *)
(*                                                                         *)
(* Text is modelled as a sequence of one-character strings, so that        *)
(* "/a" is <<"/", "a">>.  A regular expression is a sequence of lexemes:   *)
(* a lexeme is one character, or one of the character classes of           *)
(* REGEX_TYPES written as a single lexeme ("[^/]", "\\d", "[0-9\\\\.]",    *)
(* "[A-Za-z]").  The fragment of `re` that is interpreted is: literal      *)
(* characters, ".", the four classes, capturing groups "(" ")" that are    *)
(* not themselves repeated, and the postfix "+" on a character or class.   *)
(***************************************************************************)
EXTENDS Integers, Sequences, FiniteSets, TLC

VARIABLES routes, cache, ret, first, lastUse, threads

vars == <<routes, cache, ret, first, lastUse, threads>>

----------------------------------------------------------------------------
(* Bounds of the model *)

MaxRoutes == 2

ROUTER_CACHE_SIZE == 2

----------------------------------------------------------------------------
(* Text helpers *)

Range(s) == {s[i] : i \in DOMAIN s}

Digits == {"0", "1", "2", "3", "4", "5", "6", "7", "8", "9"}

DigitVal(c) ==
    CASE c = "0" -> 0 [] c = "1" -> 1 [] c = "2" -> 2 [] c = "3" -> 3
      [] c = "4" -> 4 [] c = "5" -> 5 [] c = "6" -> 6 [] c = "7" -> 7
      [] c = "8" -> 8 [] c = "9" -> 9

Letters == {"a", "b", "c", "d", "e", "f", "g", "h", "i", "j", "k", "l", "m",
            "n", "o", "p", "q", "r", "s", "t", "u", "v", "w", "x", "y", "z"}

\* index of the first occurrence of c in s at or after position i, 0 if none
RECURSIVE IndexFrom(_, _, _)
IndexFrom(s, c, i) ==
    IF i > Len(s) THEN 0
    ELSE IF s[i] = c THEN i
    ELSE IndexFrom(s, c, i + 1)

\* str.split('/')
RECURSIVE Split(_)
Split(s) ==
    LET i == IndexFrom(s, "/", 1)
    IN  IF i = 0 THEN <<s>>
        ELSE <<SubSeq(s, 1, i - 1)>> \o Split(SubSeq(s, i + 1, Len(s)))

\* '/'.join(parts)
RECURSIVE Join(_)
Join(parts) ==
    IF Len(parts) = 0 THEN <<>>
    ELSE IF Len(parts) = 1 THEN parts[1]
    ELSE parts[1] \o <<"/">> \o Join(Tail(parts))

url_hash(url) ==
    LET segs == Split(url)
    IN  Join([i \in 1..Len(segs) |-> <<":">>])

----------------------------------------------------------------------------
(* REGEX_TYPES and the casts *)

\* int(text); the \d+ sub-pattern only lets digits through
RECURSIVE IntOf(_)
IntOf(s) ==
    IF Len(s) = 0 THEN 0
    ELSE 10 * IntOf(SubSeq(s, 1, Len(s) - 1)) + DigitVal(s[Len(s)])

\* true when float(text) raises ValueError: text accepted by [0-9\\.]+ is a
\* float literal only if it has no backslash, at most one dot and a digit
FloatFails(s) ==
    \/ "\\" \in Range(s)
    \/ Cardinality({i \in DOMAIN s : s[i] = "."}) > 1
    \/ Range(s) \cap Digits = {}

RECURSIVE StripZeros(_)
StripZeros(s) ==
    IF Len(s) > 0 /\ s[Len(s)] = "0" THEN StripZeros(SubSeq(s, 1, Len(s) - 1))
    ELSE s

FloatOf(s) ==
    LET d == IndexFrom(s, ".", 1)
        ip == IF d = 0 THEN s ELSE SubSeq(s, 1, d - 1)
        fp == IF d = 0 THEN <<>> ELSE SubSeq(s, d + 1, Len(s))
    IN  [t |-> "float", whole |-> IntOf(ip), frac |-> StripZeros(fp)]

CastFails(cast, text) == cast = "float" /\ FloatFails(text)

Cast(cast, text) ==
    CASE cast = "int" -> [t |-> "int", n |-> IntOf(text)]
      [] cast = "float" -> FloatOf(text)
      [] OTHER -> [t |-> "str", s |-> text]

\* REGEX_TYPES.get(pattern, (str, pattern))
REGEX_TYPES(pattern) ==
    CASE pattern = <<"s", "t", "r", "i", "n", "g">> ->
            [cast |-> "str", pattern |-> <<"[^/]", "+">>]
      [] pattern = <<"i", "n", "t">> ->
            [cast |-> "int", pattern |-> <<"\\d", "+">>]
      [] pattern = <<"n", "u", "m", "b", "e", "r">> ->
            [cast |-> "float", pattern |-> <<"[0-9\\\\.]", "+">>]
      [] pattern = <<"a", "l", "p", "h", "a">> ->
            [cast |-> "str", pattern |-> <<"[A-Za-z]", "+">>]
      [] OTHER -> [cast |-> "str", pattern |-> pattern]

----------------------------------------------------------------------------
(* Pattern compilation: re.sub(r'<(.+?)>', add_parameter, uri), re.compile *)

\* the closing ">" of a placeholder opened at i: the first ">" at or after
\* i + 2, because .+? takes at least one character; 0 if there is none
PlaceholderEnd(uri, i) == IndexFrom(uri, ">", i + 2)

\* add_parameter: NAME or NAME:PATTERN
add_parameter(group1) ==
    LET c == IndexFrom(group1, ":", 1)
        name == IF c = 0 THEN group1 ELSE SubSeq(group1, 1, c - 1)
        pattern == IF c = 0 THEN <<"s", "t", "r", "i", "n", "g">>
                   ELSE SubSeq(group1, c + 1, Len(group1))
        ty == REGEX_TYPES(pattern)
    IN  [parameter |-> [name |-> name, cast |-> ty.cast],
         text |-> <<"(">> \o ty.pattern \o <<")">>]

\* the text re.sub returns, scanning uri from position i
RECURSIVE pattern_string(_, _)
pattern_string(uri, i) ==
    IF i > Len(uri) THEN <<>>
    ELSE IF uri[i] = "<" /\ PlaceholderEnd(uri, i) # 0
         THEN LET j == PlaceholderEnd(uri, i)
              IN  add_parameter(SubSeq(uri, i + 1, j - 1)).text
                      \o pattern_string(uri, j + 1)
         ELSE <<uri[i]>> \o pattern_string(uri, i + 1)

\* the parameters list add_parameter appends to, in template order
RECURSIVE parameters(_, _)
parameters(uri, i) ==
    IF i > Len(uri) THEN <<>>
    ELSE IF uri[i] = "<" /\ PlaceholderEnd(uri, i) # 0
         THEN LET j == PlaceholderEnd(uri, i)
              IN  <<add_parameter(SubSeq(uri, i + 1, j - 1)).parameter>>
                      \o parameters(uri, j + 1)
         ELSE parameters(uri, i + 1)

\* re.compile: lexemes to tokens; "+" applies to the atom before it
RECURSIVE Compile(_, _)
Compile(ps, i) ==
    IF i > Len(ps) THEN <<>>
    ELSE IF ps[i] = "(" THEN <<[kind |-> "open", a |-> "(", plus |-> FALSE]>>
                                \o Compile(ps, i + 1)
    ELSE IF ps[i] = ")" THEN <<[kind |-> "close", a |-> ")", plus |-> FALSE]>>
                                \o Compile(ps, i + 1)
    ELSE IF i < Len(ps) /\ ps[i + 1] = "+"
         THEN <<[kind |-> "atom", a |-> ps[i], plus |-> TRUE]>>
                  \o Compile(ps, i + 2)
         ELSE <<[kind |-> "atom", a |-> ps[i], plus |-> FALSE]>>
                  \o Compile(ps, i + 1)

\* does the atom a accept the character c
Accepts(a, c) ==
    CASE a = "[^/]" -> c # "/"
      [] a = "\\d" -> c \in Digits
      [] a = "[0-9\\\\.]" -> c \in Digits \cup {"\\", "."}
      [] a = "[A-Za-z]" -> c \in Letters
      [] a = "." -> TRUE
      [] OTHER -> c = a

\* the number of characters of s from position j on that a accepts
RECURSIVE RunLen(_, _, _)
RunLen(a, s, j) ==
    IF j > Len(s) \/ ~Accepts(a, s[j]) THEN 0
    ELSE 1 + RunLen(a, s, j + 1)

NoMatch == [ok |-> FALSE, marks |-> <<>>]

\* backtracking match of tokens i.. against s from position j, anchored at
\* the end ($); marks are the positions in s at each "(" and ")" passed
RECURSIVE MatchFrom(_, _, _, _)
RECURSIVE TryLen(_, _, _, _, _)
MatchFrom(re, i, s, j) ==
    IF i > Len(re)
    THEN IF j > Len(s) THEN [ok |-> TRUE, marks |-> <<>>] ELSE NoMatch
    ELSE IF re[i].kind # "atom"
    THEN LET r == MatchFrom(re, i + 1, s, j)
         IN  IF r.ok THEN [ok |-> TRUE, marks |-> <<j>> \o r.marks]
             ELSE NoMatch
    ELSE IF re[i].plus
    THEN TryLen(re, i, s, j, RunLen(re[i].a, s, j))
    ELSE IF j <= Len(s) /\ Accepts(re[i].a, s[j])
    THEN MatchFrom(re, i + 1, s, j + 1)
    ELSE NoMatch

\* greedy "+": the longest run first, then shorter ones
TryLen(re, i, s, j, n) ==
    IF n < 1 THEN NoMatch
    ELSE LET r == MatchFrom(re, i + 1, s, j + n)
         IN  IF r.ok THEN r ELSE TryLen(re, i, s, j, n - 1)

\* the "(" / ")" tokens of re, in order
Markers(re) == SelectSeq(re, LAMBDA t : t.kind # "atom")

\* the index in ms of the ")" that closes the "(" at index k
RECURSIVE CloseOf(_, _, _)
CloseOf(ms, k, depth) ==
    IF ms[k].kind = "open" THEN CloseOf(ms, k + 1, depth + 1)
    ELSE IF depth = 1 THEN k
    ELSE CloseOf(ms, k + 1, depth - 1)

\* match.groups(): the text of each group, numbered by its "("
groups(re, marks, s) ==
    LET ms == Markers(re)
        opens == SelectSeq([k \in 1..Len(ms) |-> k],
                           LAMBDA k : ms[k].kind = "open")
    IN  [g \in 1..Len(opens) |->
            SubSeq(s, marks[opens[g]], marks[CloseOf(ms, opens[g] + 1, 1)] - 1)]

\* pattern.match(url) for pattern = re.compile('^...$')
match(re, url) == MatchFrom(re, 1, url, 1)

----------------------------------------------------------------------------
(* Router.add *)

\* the number of routes in the table
RECURSIVE NumRoutesIn(_, _)
NumRoutesIn(tbl, keys) ==
    IF keys = {} THEN 0
    ELSE LET k == CHOOSE x \in keys : TRUE
         IN  Len(tbl[k]) + NumRoutesIn(tbl, keys \ {k})

NumRoutes == NumRoutesIn(routes, DOMAIN routes)

\* Route(handler, methods, pattern, parameters).  methods is the frozenset
\* of a non-empty argument; an empty or absent argument is kept as it is and
\* is falsy at both places that test it, which is modelled by {}
Route(uri, methods, handler) ==
    [handler |-> handler,
     methods |-> IF methods # <<>> THEN Range(methods) ELSE {},
     pattern |-> Compile(pattern_string(uri, 1), 1),
     parameters |-> parameters(uri, 1)]

\* the key a template is stored under
RouteKey(uri) == IF parameters(uri, 1) # <<>> THEN url_hash(uri) ELSE uri

\* AppendRoute as it would be if a new route went to the front of its bucket
AppendRoute_Front(tbl, key, route) ==
    [k \in DOMAIN tbl \cup {key} |->
        IF k = key
        THEN <<route>> \o (IF k \in DOMAIN tbl THEN tbl[k] ELSE <<>>)
        ELSE tbl[k]]

\* self.routes[key].append(route) on a defaultdict(list)
AppendRoute(tbl, key, route) ==
    [k \in DOMAIN tbl \cup {key} |->
        IF k = key
        THEN Append(IF k \in DOMAIN tbl THEN tbl[k] ELSE <<>>, route)
        ELSE tbl[k]]

----------------------------------------------------------------------------
(* Router.get, the function lru_cache wraps *)

\* self.routes[key] read on a defaultdict(list): a missing key is inserted
\* with an empty list
TouchKey(tbl, key) ==
    [k \in DOMAIN tbl \cup {key} |-> IF k \in DOMAIN tbl THEN tbl[k] ELSE <<>>]

\* the for loop: index of the first route of the bucket whose pattern
\* matches url, 0 when the loop runs to its else clause
RECURSIVE FirstMatch(_, _, _)
FirstMatch(bucket, url, i) ==
    IF i > Len(bucket) THEN 0
    ELSE IF match(bucket[i].pattern, url).ok THEN i
    ELSE FirstMatch(bucket, url, i + 1)

\* Select as it would be if line 97 took the last route under the key
Select_LastUnderKey(tbl, url) ==
    IF url \in DOMAIN tbl
    THEN IF Len(tbl[url]) = 0
         THEN [kind |-> "IndexError"]
         ELSE [kind |-> "route", route |-> tbl[url][Len(tbl[url])],
               match |-> match(tbl[url][Len(tbl[url])].pattern, url)]
    ELSE LET bucket == TouchKey(tbl, url_hash(url))[url_hash(url)]
             i == FirstMatch(bucket, url, 1)
         IN  IF i = 0
             THEN [kind |-> "NotFound"]
             ELSE [kind |-> "route", route |-> bucket[i],
                   match |-> match(bucket[i].pattern, url)]

\* lines 97-98: the first route under the key url, and its match object
TakeFirst(tbl, url) ==
    IF Len(tbl[url]) = 0
    THEN [kind |-> "IndexError"]
    ELSE [kind |-> "route", route |-> tbl[url][1],
          match |-> match(tbl[url][1].pattern, url)]

\* lines 100-105: the scan of the bucket of url's shape key
ScanBucket(tbl, url) ==
    LET bucket == TouchKey(tbl, url_hash(url))[url_hash(url)]
        i == FirstMatch(bucket, url, 1)
    IN  IF i = 0
        THEN [kind |-> "NotFound"]
        ELSE [kind |-> "route", route |-> bucket[i],
              match |-> match(bucket[i].pattern, url)]

\* lines 94-105: the selected route and its match object, or the error
Select(tbl, url) ==
    IF url \in DOMAIN tbl THEN TakeFirst(tbl, url) ELSE ScanBucket(tbl, url)

\* the table after lines 94-105
RoutesAfterGet(tbl, url) ==
    IF url \in DOMAIN tbl THEN tbl ELSE TouchKey(tbl, url_hash(url))

\* zip(match.groups(1), route.parameters)
Zipped(route, m, url) ==
    LET gs == groups(route.pattern, m.marks, url)
        n == IF Len(gs) < Len(route.parameters) THEN Len(gs)
             ELSE Len(route.parameters)
    IN  [k \in 1..n |-> [value |-> gs[k], p |-> route.parameters[k]]]

\* {p.name: p.cast(value) for value, p in zip(...)}; a later pair with the
\* same name replaces an earlier one
Kwargs(z) ==
    [nm \in {z[k].p.name : k \in DOMAIN z} |->
        LET k == CHOOSE k \in DOMAIN z :
                    /\ z[k].p.name = nm
                    /\ \A k2 \in DOMAIN z : z[k2].p.name = nm => k2 <= k
        IN  Cast(z[k].p.cast, z[k].value)]

\* Finish as it would be without the method check of lines 107-110
Finish_NoMethodCheck(sel, request) ==
    IF ~sel.match.ok
    THEN [kind |-> "AttributeError"]
    ELSE LET z == Zipped(sel.route, sel.match, request.url)
         IN  IF \E k \in DOMAIN z : CastFails(z[k].p.cast, z[k].value)
             THEN [kind |-> "ValueError"]
             ELSE [kind |-> "ok", handler |-> sel.route.handler,
                   kwargs |-> Kwargs(z)]

\* Finish as it would be if line 107 tested only the membership, so that an
\* empty method set rejected every method
Finish_EmptyRejects(sel, request) ==
    IF request.method \notin sel.route.methods
    THEN [kind |-> "InvalidUsage", status_code |-> 405,
          method |-> request.method, url |-> request.url]
    ELSE IF ~sel.match.ok
    THEN [kind |-> "AttributeError"]
    ELSE LET z == Zipped(sel.route, sel.match, request.url)
         IN  IF \E k \in DOMAIN z : CastFails(z[k].p.cast, z[k].value)
             THEN [kind |-> "ValueError"]
             ELSE [kind |-> "ok", handler |-> sel.route.handler,
                   kwargs |-> Kwargs(z)]

\* lines 107-115 for a selected route
Finish(sel, request) ==
    IF sel.route.methods # {} /\ request.method \notin sel.route.methods
    THEN [kind |-> "InvalidUsage", status_code |-> 405,
          method |-> request.method, url |-> request.url]
    ELSE IF ~sel.match.ok
    THEN [kind |-> "AttributeError"]
    ELSE LET z == Zipped(sel.route, sel.match, request.url)
         IN  IF \E k \in DOMAIN z : CastFails(z[k].p.cast, z[k].value)
             THEN [kind |-> "ValueError"]
             ELSE [kind |-> "ok", handler |-> sel.route.handler,
                   kwargs |-> Kwargs(z)]

\* the outcome of the body of Router.get after the selection sel
Outcome(sel, request) ==
    IF sel.kind = "route" THEN Finish(sel, request)
    ELSE IF sel.kind = "NotFound"
    THEN [kind |-> "NotFound", url |-> request.url]
    ELSE [kind |-> sel.kind]

\* the outcome of the body of Router.get
GetBody(tbl, request) == Outcome(Select(tbl, request.url), request)

----------------------------------------------------------------------------
(* functools.lru_cache(maxsize=Config.ROUTER_CACHE_SIZE), keyed on the      *)
(* request object; the cache is kept least recently used first             *)

\* the key lru_cache makes of the call: the request object itself, which
\* hashes and compares by identity
CacheKey(request) == request

CacheKeys(c) == {c[i].key : i \in DOMAIN c}

CacheIndex(c, key) == CHOOSE i \in DOMAIN c : c[i].key = key

\* the value a hit returns
CacheValue(c, key) == c[CacheIndex(c, key)].value

\* CacheHit as it would be in a first-in first-out cache
CacheHit_NoMove(c, key) == c

\* a hit moves the entry to the most recently used end
CacheHit(c, key) ==
    LET i == CacheIndex(c, key)
    IN  SubSeq(c, 1, i - 1) \o SubSeq(c, i + 1, Len(c)) \o <<c[i]>>

\* CacheStore as it would be if nothing were ever discarded
CacheStore_NoEvict(c, key, value) == Append(c, [key |-> key, value |-> value])

\* a stored result takes the place of the least recently used entry when
\* the cache is full
CacheStore(c, key, value) ==
    IF Len(c) >= ROUTER_CACHE_SIZE
    THEN Append(Tail(c), [key |-> key, value |-> value])
    ELSE Append(c, [key |-> key, value |-> value])

\* Result(out) is the value cached for a returned (handler, [], kwargs)
Result(out) == [handler |-> out.handler, kwargs |-> out.kwargs]

\* CacheAfterCall as it would be if a raised error were stored like a result
CacheAfterCall_StoreFailures(c, key, out) ==
    IF out.kind = "ok" THEN CacheStore(c, key, Result(out))
    ELSE CacheStore(c, key, [handler |-> 0, kwargs |-> <<>>])

\* the cache after the wrapped function ran on a miss: a returned value is
\* stored, a raised exception passes through and nothing is stored
CacheAfterCall(c, key, out) ==
    IF out.kind = "ok" THEN CacheStore(c, key, Result(out)) ELSE c

\* the cache when a call that missed returns its value while other calls
\* run: lru_cache looks the key up again and stores nothing when another
\* call has stored it meanwhile
CacheAfterReturn(c, key, value) ==
    IF key \in CacheKeys(c) THEN c ELSE CacheStore(c, key, value)

\* CacheAfterAdd as it would be if a registration emptied the cache
CacheAfterAdd_Clear(c) == <<>>

\* the cache after Router.add, which has no statement about it
CacheAfterAdd(c) == c

----------------------------------------------------------------------------
(* History: the first successful result of every (path, method) pair, and  *)
(* the order of last use of the cached keys, kept apart from the cache      *)

Pair(request) == <<request.url, request.method>>

\* the first result of a pair; a pair whose path is later registered as a
\* static route is marked
FirstAfterGet(f, request, out) ==
    IF out.kind = "ok" /\ Pair(request) \notin DOMAIN f
    THEN [p \in DOMAIN f \cup {Pair(request)} |->
            IF p = Pair(request)
            THEN [static |-> FALSE, result |-> Result(out)]
            ELSE f[p]]
    ELSE f

FirstAfterAdd(f, uri) ==
    [p \in DOMAIN f |->
        IF parameters(uri, 1) = <<>> /\ p[1] = uri
        THEN [static |-> TRUE, result |-> f[p].result]
        ELSE f[p]]

\* key becomes the most recently used; keys no longer cached are dropped and
\* the ranks are renumbered 1..n, oldest use first
Used(lu, key, kept) ==
    LET top == Cardinality(DOMAIN lu) + 1
        stamped == [k \in (DOMAIN lu \cup {key}) \cap kept |->
                        IF k = key THEN top ELSE lu[k]]
    IN  [k \in DOMAIN stamped |->
            Cardinality({k2 \in DOMAIN stamped : stamped[k2] <= stamped[k]})]

----------------------------------------------------------------------------
(* The state machine *)

Methods == {"GET", "POST"}

MethodArgs == {<<>>, <<"GET">>}

Handlers == 1..MaxRoutes

\* the threads that call Router.get at the same time
Threads == {1, 2}

Init ==
    /\ routes = <<>>
    /\ cache = <<>>
    /\ ret = [op |-> "init"]
    /\ first = <<>>
    /\ lastUse = <<>>
    /\ threads = [t \in Threads |-> [pc |-> "idle"]]

\* Router.add(uri, methods, handler)
Add(uri, methods, handler) ==
    /\ NumRoutes < MaxRoutes
    /\ handler = NumRoutes + 1
    /\ routes' = AppendRoute(routes, RouteKey(uri), Route(uri, methods, handler))
    /\ ret' = [op |-> "add"]
    /\ first' = FirstAfterAdd(first, uri)
    /\ cache' = CacheAfterAdd(cache)
    /\ UNCHANGED <<lastUse, threads>>

\* Router.get(request) through lru_cache.  ret records the call, whether the
\* cache served it, the route lines 94-105 selected and the outcome
Get(request) ==
    IF CacheKey(request) \in CacheKeys(cache)
    THEN /\ cache' = CacheHit(cache, CacheKey(request))
         /\ ret' = [op |-> "get", request |-> request, hit |-> TRUE,
                    sel |-> [kind |-> "cached"],
                    out |-> [kind |-> "ok",
                             handler |-> CacheValue(cache, CacheKey(request)).handler,
                             kwargs |-> CacheValue(cache, CacheKey(request)).kwargs]]
         /\ first' = FirstAfterGet(first, request, ret'.out)
         /\ lastUse' = Used(lastUse, CacheKey(request), CacheKeys(cache'))
         /\ UNCHANGED <<routes, threads>>
    ELSE LET out == GetBody(routes, request)
         IN  /\ routes' = RoutesAfterGet(routes, request.url)
             /\ ret' = [op |-> "get", request |-> request, hit |-> FALSE,
                        sel |-> Select(routes, request.url), out |-> out]
             /\ first' = FirstAfterGet(first, request, out)
             /\ cache' = CacheAfterCall(cache, CacheKey(request), out)
             /\ lastUse' = IF out.kind = "ok"
                           THEN Used(lastUse, CacheKey(request), CacheKeys(cache'))
                           ELSE lastUse
             /\ UNCHANGED threads

----------------------------------------------------------------------------
(* Router.get called from several threads.  A call is a sequence of steps,  *)
(* each one atomic under the interpreter lock: the lookup of lru_cache, the *)
(* test of line 96, the rest of the body, and the store of lru_cache.       *)
(* Between two steps of one call the steps of other calls may run.          *)

\* Router.add while no thread has called get yet: registration is done
\* before the requests begin
Register(uri, methods, handler) ==
    /\ \A t \in Threads : threads[t].pc = "idle"
    /\ Add(uri, methods, handler)

\* lru_cache wrapper: the lookup.  A hit returns the stored value and makes
\* the key the most recently used one; a miss goes on to the body
Call(t, request) ==
    /\ threads[t].pc \in {"idle", "done"}
    /\ IF CacheKey(request) \in CacheKeys(cache)
       THEN /\ cache' = CacheHit(cache, CacheKey(request))
            /\ threads' = [threads EXCEPT ![t] =
                  [pc |-> "done", request |-> request,
                   out |-> [kind |-> "ok",
                            handler |-> CacheValue(cache, CacheKey(request)).handler,
                            kwargs |-> CacheValue(cache, CacheKey(request)).kwargs]]]
       ELSE /\ threads' = [threads EXCEPT ![t] =
                  [pc |-> "body", request |-> request]]
            /\ UNCHANGED cache
    /\ UNCHANGED <<routes, ret, first, lastUse>>

\* line 96: if url in self.routes
InRoutes(t) ==
    /\ threads[t].pc = "body"
    /\ threads' = [threads EXCEPT ![t] =
          [pc |-> IF threads[t].request.url \in DOMAIN routes
                  THEN "first" ELSE "scan",
           request |-> threads[t].request]]
    /\ UNCHANGED <<routes, cache, ret, first, lastUse>>

\* lines 97-115 on the branch line 96 took: a value goes back to the
\* wrapper to be stored, an exception leaves the call
Run(t) ==
    /\ threads[t].pc \in {"first", "scan"}
    /\ LET request == threads[t].request
           sel == IF threads[t].pc = "first"
                  THEN TakeFirst(routes, request.url)
                  ELSE ScanBucket(routes, request.url)
           out == Outcome(sel, request)
       IN  /\ routes' = IF threads[t].pc = "first" THEN routes
                        ELSE TouchKey(routes, url_hash(request.url))
           /\ threads' = [threads EXCEPT ![t] =
                 [pc |-> IF out.kind = "ok" THEN "store" ELSE "done",
                  request |-> request, out |-> out]]
    /\ UNCHANGED <<cache, ret, first, lastUse>>

\* lru_cache wrapper: the store of the returned value
Store(t) ==
    /\ threads[t].pc = "store"
    /\ cache' = CacheAfterReturn(cache, CacheKey(threads[t].request),
                                 Result(threads[t].out))
    /\ threads' = [threads EXCEPT ![t].pc = "done"]
    /\ UNCHANGED <<routes, ret, first, lastUse>>

----------------------------------------------------------------------------
(* Inputs.  Every registration brings its own handler, numbered in          *)
(* registration order.  A request object is id, url and method: two         *)
(* objects with different ids are different keys of lru_cache.              *)

\* routes with and without parameters that meet on the same paths
Templates ==
    { <<"/", "a">>,
      <<"/", "<", "x", ">">>,
      <<"/", "<", "i", ":", "i", "n", "t", ">">> }

Urls == { <<"/", "a">>, <<"/", "1">> }

Requests == [id : {1, 2}, url : Urls, method : Methods]

Next ==
    \/ \E uri \in Templates, methods \in MethodArgs, handler \in Handlers :
          Add(uri, methods, handler)
    \/ \E request \in Requests : Get(request)

Spec == Init /\ [][Next]_vars

\* templates and paths without a leading "/", where a path can be equal to
\* a shape key
KeyTemplates ==
    { <<":">>,
      <<"<", "x", ">">>,
      <<"<", "i", ":", "i", "n", "t", ">">> }

KeyUrls == { <<":">>, <<"1">> }

KeyRequests == [id : {1}, url : KeyUrls, method : Methods]

NextKeys ==
    \/ \E uri \in KeyTemplates, methods \in MethodArgs, handler \in Handlers :
          Add(uri, methods, handler)
    \/ \E request \in KeyRequests : Get(request)

SpecKeys == Init /\ [][NextKeys]_vars

\* templates with regular-expression text of their own: a literal "+", a
\* custom sub-pattern with a group, and two typed placeholders
RegexTemplates ==
    { <<"/", "a", "+">>,
      <<"/", "<", "x", ">", "/", "<", "i", ":", "i", "n", "t", ">">>,
      <<"/", "<", "x", ":", "(", "a", ")", ">", "/", "<", "y", ">">> }

RegexUrls == { <<"/", "a", "+">>, <<"/", "a", "/", "1">>, <<"/", "a", "a">> }

RegexRequests == [id : {1}, url : RegexUrls, method : Methods]

NextRegex ==
    \/ \E uri \in RegexTemplates, methods \in MethodArgs, handler \in Handlers :
          Add(uri, methods, handler)
    \/ \E request \in RegexRequests : Get(request)

SpecRegex == Init /\ [][NextRegex]_vars

\* templates with a custom sub-pattern that takes "/" as well, and with the
\* number type, alone and after a custom sub-pattern with a group
TypeTemplates ==
    { <<"/", "<", "p", ":", ".", "+", ">">>,
      <<"/", "<", "n", ":", "n", "u", "m", "b", "e", "r", ">">>,
      <<"/", "<", "x", ":", "(", "1", ")", ">", "/",
        "<", "n", ":", "n", "u", "m", "b", "e", "r", ">">> }

TypeUrls == { <<"/", "a", "/", "b">>, <<"/", ".">>, <<"/", "1", "/", ".">> }

TypeRequests == [id : {1}, url : TypeUrls, method : Methods]

NextTypes ==
    \/ \E uri \in TypeTemplates, methods \in MethodArgs, handler \in Handlers :
          Add(uri, methods, handler)
    \/ \E request \in TypeRequests : Get(request)

SpecTypes == Init /\ [][NextTypes]_vars

\* two threads on a table with and without a bucket for the paths' shape
\* key; more request objects than the cache holds
ThreadTemplates ==
    { <<"<", "x", ">">>, <<"a", "/", "<", "x", ">">> }

ThreadUrls == { <<":">>, <<"1">> }

ThreadRequests == [id : {1, 2}, url : ThreadUrls, method : {"GET"}]

NextThreads ==
    \/ \E uri \in ThreadTemplates, handler \in Handlers :
          Register(uri, <<>>, handler)
    \/ \E t \in Threads, request \in ThreadRequests : Call(t, request)
    \/ \E t \in Threads : InRoutes(t)
    \/ \E t \in Threads : Run(t)
    \/ \E t \in Threads : Store(t)

SpecThreads == Init /\ [][NextThreads]_vars

----------------------------------------------------------------------------
(* The vocabulary of the claims, stated on the route table itself *)

\* the routes stored under a key, none when the key is absent
Bucket(tbl, key) == IF key \in DOMAIN tbl THEN tbl[key] ELSE <<>>

\* positions, under the key p, of the routes registered with the static
\* template p
StaticRoutesAt(tbl, p) ==
    {i \in DOMAIN Bucket(tbl, p) : Bucket(tbl, p)[i].parameters = <<>>}

\* positions, in the shape-key bucket of url, of the routes whose matcher
\* fully matches url
MatchingAt(tbl, url) ==
    {i \in DOMAIN Bucket(tbl, url_hash(url)) :
        match(Bucket(tbl, url_hash(url))[i].pattern, url).ok}

Allows(route, method) == route.methods = {} \/ method \in route.methods

Least(S) == CHOOSE i \in S : \A j \in S : i <= j

\* the text each placeholder captured: add_parameter writes one group per
\* placeholder, and these are the groups that are not inside another group
PlaceholderTexts(route, m, url) ==
    LET ms == Markers(route.pattern)
        depth(k) == Cardinality({j \in 1..(k - 1) : ms[j].kind = "open"})
                      - Cardinality({j \in 1..(k - 1) : ms[j].kind = "close"})
        tops == SelectSeq([k \in 1..Len(ms) |-> k],
                          LAMBDA k : ms[k].kind = "open" /\ depth(k) = 0)
    IN  [g \in 1..Len(tops) |->
            SubSeq(url, m.marks[tops[g]],
                   m.marks[CloseOf(ms, tops[g] + 1, 1)] - 1)]

\* the table as registration left it: get adds nothing but empty buckets
Registered(tbl) == [k \in {k \in DOMAIN tbl : tbl[k] # <<>>} |-> tbl[k]]

LastGet == ret.op = "get"

LastMiss == ret.op = "get" /\ ~ret.hit

----------------------------------------------------------------------------
(* C1 .. C10 *)

\* C1: after any sequence of add and get calls, a get of a registered
\* static path p with a method that the route registered at p allows
\* returns that route's handler and an empty parameter map; it never fails
\* and never returns another route's handler.
C1_StaticResolves ==
    LastGet =>
        LET url == ret.request.url
            here == StaticRoutesAt(routes, url)
        IN  \A i \in here :
                (here = {i} /\ Allows(routes[url][i], ret.request.method)) =>
                    /\ ret.out.kind = "ok"
                    /\ ret.out.handler = routes[url][i].handler
                    /\ DOMAIN ret.out.kwargs = {}

\* C2: when get selects a parameterized route and returns, the parameter
\* map has exactly one entry per placeholder of the template, and each
\* entry is the cast, by its placeholder's type, of the text that same
\* placeholder captured.
C2_ParametersCast ==
    (/\ LastMiss
     /\ ret.sel.kind = "route"
     /\ ret.sel.route.parameters # <<>>
     /\ ret.out.kind = "ok") =>
        LET ps == ret.sel.route.parameters
            texts == PlaceholderTexts(ret.sel.route, ret.sel.match,
                                      ret.request.url)
        IN  /\ DOMAIN ret.out.kwargs = {ps[k].name : k \in DOMAIN ps}
            /\ Cardinality(DOMAIN ret.out.kwargs) = Len(ps)
            /\ \A k \in DOMAIN ps :
                  ret.out.kwargs[ps[k].name] = Cast(ps[k].cast, texts[k])

\* C3: for a path that is not a registered static path, get selects the
\* first route, in registration order within the path's shape-key bucket,
\* whose matcher fully matches the path.
C3_FirstMatchSelected ==
    (/\ LastMiss
     /\ StaticRoutesAt(routes, ret.request.url) = {}
     /\ MatchingAt(routes, ret.request.url) # {}) =>
        /\ ret.sel.kind = "route"
        /\ ret.sel.route =
              Bucket(routes, url_hash(ret.request.url))
                  [Least(MatchingAt(routes, ret.request.url))]

\* C4: whenever the path matches the route get selects, and that route's
\* method set is non-empty and lacks the request method, get fails with
\* MethodNotAllowed (405, carrying the method and the url), never NotFound.
C4_MethodNotAllowed ==
    (/\ LastMiss
     /\ ret.sel.kind = "route"
     /\ ret.sel.match.ok
     /\ ~Allows(ret.sel.route, ret.request.method)) =>
        ret.out = [kind |-> "InvalidUsage", status_code |-> 405,
                   method |-> ret.request.method, url |-> ret.request.url]

C4_Witness ==
    /\ LastMiss
    /\ ret.sel.kind = "route"
    /\ ret.sel.match.ok
    /\ ret.sel.route.methods = {"GET"}
    /\ ret.request.method = "POST"
    /\ ret.out.kind = "InvalidUsage"

\* C5: a get of a path that no registered static route equals and that no
\* route of its shape-key bucket matches fails with NotFound, the bucket
\* being empty, absent or unmatched; it fails with no other error and
\* returns no handler.
C5_NotFound ==
    (/\ LastGet
     /\ StaticRoutesAt(routes, ret.request.url) = {}
     /\ MatchingAt(routes, ret.request.url) = {}) =>
        ret.out.kind = "NotFound"

\* C6: a route registered with an empty or absent methods argument accepts
\* every method: a get that selects such a route never fails with
\* MethodNotAllowed.
C6_AnyMethod ==
    (/\ LastMiss
     /\ ret.sel.kind = "route"
     /\ ret.sel.route.methods = {}) =>
        ret.out.kind # "InvalidUsage"

C6_Witness ==
    /\ LastMiss
    /\ ret.sel.kind = "route"
    /\ ret.sel.route.methods = {}
    /\ ret.request.method = "POST"
    /\ ret.out.kind = "ok"

\* C7: every later successful get of a (path, method) pair returns the
\* same handler and parameter map as the first get of that pair, whether
\* served from the cache or executed again.
C7_CacheCoherence ==
    (LastGet /\ ret.out.kind = "ok") =>
        Result(ret.out) = first[Pair(ret.request)].result

\* C7 as amended: the same, as long as no static route for exactly that
\* path has been registered since the first get of the pair.
C7_CoherenceUntilStaticAdd ==
    (/\ LastGet
     /\ ret.out.kind = "ok"
     /\ ~first[Pair(ret.request)].static) =>
        Result(ret.out) = first[Pair(ret.request)].result

\* a pair resolved once, cached, and executed again for another request
C7_Witness ==
    /\ LastMiss
    /\ ret.out.kind = "ok"
    /\ ~first[Pair(ret.request)].static
    /\ \E i \in DOMAIN cache :
          /\ cache[i].key # ret.request
          /\ Pair(cache[i].key) = Pair(ret.request)

C9_CacheBounded ==
    /\ Len(cache) <= ROUTER_CACHE_SIZE
    /\ Cardinality(CacheKeys(cache)) = Len(cache)

\* a hit in a full cache after more pairs were resolved than it holds
C9_Witness ==
    /\ LastGet
    /\ ret.hit
    /\ Len(cache) = ROUTER_CACHE_SIZE
    /\ Cardinality(DOMAIN first) > ROUTER_CACHE_SIZE

\* C10: if the path is exactly a registered static path, get selects a
\* static route registered at it and applies the method check to that
\* route, whatever was registered earlier.
C10_StaticPrecedence ==
    (LastMiss /\ StaticRoutesAt(routes, ret.request.url) # {}) =>
        /\ ret.sel.kind = "route"
        /\ \E i \in StaticRoutesAt(routes, ret.request.url) :
              ret.sel.route = routes[ret.request.url][i]
        /\ ~Allows(ret.sel.route, ret.request.method) =>
              ret.out.kind = "InvalidUsage"

----------------------------------------------------------------------------
(* C11 .. C20 *)

Greatest(S) == CHOOSE i \in S : \A j \in S : j <= i

\* C11: when the same static path is registered more than once, the last
\* registered route wins: a get of the path selects the handler and the
\* method set of the most recent add for it.
C11_LastRegisteredWins ==
    (LastMiss /\ Cardinality(StaticRoutesAt(routes, ret.request.url)) >= 2) =>
        /\ ret.sel.kind = "route"
        /\ ret.sel.route =
              routes[ret.request.url]
                    [Greatest(StaticRoutesAt(routes, ret.request.url))]

\* C11 as amended: the first registered route wins: the get selects the
\* earliest registration stored under the path's key, its method set
\* decides the method check, and no later registration is selected.
C11_FirstRegisteredWins ==
    (LastMiss /\ Cardinality(StaticRoutesAt(routes, ret.request.url)) >= 2) =>
        /\ ret.sel.kind = "route"
        /\ \A i \in DOMAIN routes[ret.request.url] :
              ret.sel.route.handler <= routes[ret.request.url][i].handler
        /\ (ret.out.kind = "InvalidUsage") <=>
              ~Allows(ret.sel.route, ret.request.method)

C11_Witness ==
    /\ LastMiss
    /\ Cardinality(StaticRoutesAt(routes, ret.request.url)) >= 2
    /\ ret.out.kind = "ok"
    /\ ret.out.handler = 1

\* C12: get leaves the route table unchanged, whether it succeeds or
\* fails: the same keys and the same routes under each key; only the cache
\* may change.
C12_RoutesUnchangedByGet ==
    [][ret'.op = "get" => routes' = routes]_vars

\* C13: the cache is keyed on the (path, method) pair and not on the
\* request object: after a successful get, a get for any other request
\* object with the same path and method is a hit that executes no
\* matching; requests that differ in path or method share no entry.
C13_KeyedOnPair ==
    /\ LastMiss =>
          \A i \in DOMAIN cache :
              Pair(cache[i].key) = Pair(ret.request) =>
                  cache[i].key = CacheKey(ret.request)
    /\ \A i, j \in DOMAIN cache :
          cache[i].key = cache[j].key => Pair(cache[i].key) = Pair(cache[j].key)

\* C14: add never changes the cache: a key that was resolved and is still
\* cached keeps returning the cached handler and parameters after any add,
\* also an add of a static route for that very path.
C14_AddKeepsCache ==
    [][/\ ret'.op = "add" => cache' = cache
       /\ (/\ ret'.op = "get"
           /\ CacheKey(ret'.request) \in CacheKeys(cache)) =>
              /\ ret'.hit
              /\ Result(ret'.out) = CacheValue(cache, CacheKey(ret'.request))
      ]_vars

\* a hit that returns a parameterized route's result for a path that has
\* a static route by now
C14_Witness ==
    /\ LastGet
    /\ ret.hit
    /\ StaticRoutesAt(routes, ret.request.url) # {}
    /\ DOMAIN ret.out.kwargs # {}

\* C15: get fails with NotFound only when no registered route matches the
\* path: whenever the matcher of some registered route, under whatever
\* key, fully matches the path, get does not fail with NotFound.
C15_NotFoundOnlyIfNoMatch ==
    (/\ LastGet
     /\ \E key \in DOMAIN routes : \E i \in DOMAIN routes[key] :
           match(routes[key][i].pattern, ret.request.url).ok) =>
        ret.out.kind # "NotFound"

\* C16: for a path that is not a registered static path, if the first
\* route of the bucket whose matcher matches the path has a non-empty
\* method set without the request method, get fails with MethodNotAllowed
\* and does not go on to a later route of the bucket.
C16_MethodCheckOnFirstMatch ==
    (/\ LastMiss
     /\ StaticRoutesAt(routes, ret.request.url) = {}
     /\ MatchingAt(routes, ret.request.url) # {}
     /\ ~Allows(Bucket(routes, url_hash(ret.request.url))
                    [Least(MatchingAt(routes, ret.request.url))],
                ret.request.method)) =>
        ret.out.kind = "InvalidUsage"

\* C18: when the selected route's matcher matches, its method set allows
\* the method, and the text some placeholder captured cannot be cast by
\* that placeholder's cast, get fails with the cast's error; it returns no
\* parameter map.
C18_CastFailureFails ==
    (/\ LastMiss
     /\ ret.sel.kind = "route"
     /\ ret.sel.match.ok
     /\ Allows(ret.sel.route, ret.request.method)
     /\ \E k \in DOMAIN ret.sel.route.parameters :
           CastFails(ret.sel.route.parameters[k].cast,
                     PlaceholderTexts(ret.sel.route, ret.sel.match,
                                      ret.request.url)[k])) =>
        ret.out.kind = "ValueError"

\* C19: the method check and the extraction of parameters are reached only
\* with a selected route whose matcher matched the path: a path found as a
\* key of the table has a route under it, and the first one matches.
C19_SelectedRouteMatched ==
    LastMiss =>
        /\ ret.sel.kind \in {"route", "NotFound"}
        /\ ret.sel.kind = "route" => ret.sel.match.ok

\* C20: a get that fails, with NotFound, MethodNotAllowed or a cast error,
\* leaves the cache as it was, and no failure is ever served from the
\* cache: a later get of the same key runs the matching again.
C20_FailuresNotCached ==
    [][(ret'.op = "get" /\ ret'.out.kind # "ok") =>
          /\ cache' = cache
          /\ ~ret'.hit
          /\ CacheKey(ret'.request) \notin CacheKeys(cache')
      ]_vars

\* a failed get while the cache holds results
C20_Witness ==
    /\ LastMiss
    /\ ret.out.kind \in {"NotFound", "InvalidUsage"}
    /\ cache # <<>>

\* C17: once registration has finished, under every interleaving of the
\* calls of get, every finished call has the result that a get of its
\* request alone on the registered table has, the cache holds at most one
\* entry per key, and the cache holds at most ROUTER_CACHE_SIZE entries.
C17_ConcurrentResolves ==
    /\ \A t \in Threads :
          threads[t].pc = "done" =>
              threads[t].out = GetBody(Registered(routes), threads[t].request)
    /\ \A i, j \in DOMAIN cache : cache[i].key = cache[j].key => i = j
    /\ Len(cache) <= ROUTER_CACHE_SIZE

====
